---------------------------- MODULE Spec2Model ----------------------------
(***************************************************************************)
(* A model of the signaling server of media_server_cpp:                    *)
(*   - WebSocketSession and WebSocketServer (src/websocket_server.cpp),    *)
(*   - the HTTP layer's upgrade path (src/http_server.cpp).                *)
(* Strings are TLA+ strings; find/substr are computed on them.             *)
(* Threads: "io" (accept_thread_, runs ioc_: accepts and every session's   *)
(* completion handlers), "http" (a handle_client thread), "api" (a caller  *)
(* of broadcast_to_room / send_to_peer / unregister_session) and "stop"    *)
(* (the caller of stop()).                                                 *)
(***************************************************************************)
EXTENDS Integers, Sequences, FiniteSets, TLC

(***************************************************************************)
(* Bounds of the model.                                                    *)
(***************************************************************************)
MaxSessions == 2      \* session objects ever constructed
MaxClock == 1         \* readings of system_clock are 0..MaxClock
MaxConns == 2         \* sockets the HTTP layer ever accepts
MaxFrames == 2        \* inbound frames ever handled by the io thread
MaxNative == 1        \* connections ever accepted by the native acceptor
MaxStarts == 1        \* successful calls of start()

SessIds == 1..MaxSessions
FdIds == 1..MaxConns
NoSess == 0

(***************************************************************************)
(* std::string::find and substr (1-based positions; 0 is npos).            *)
(***************************************************************************)
Min(S) == CHOOSE x \in S : \A y \in S : x <= y

Find(s, p, from) ==
  LET c == { i \in from..(Len(s) - Len(p) + 1) : SubSeq(s, i, i + Len(p) - 1) = p }
  IN  IF c = {} THEN 0 ELSE Min(c)

Contains(s, p) == Find(s, p, 1) # 0

\* s.substr(start) with a 1-based start
SubstrFrom(s, start) == SubSeq(s, start, Len(s))

(***************************************************************************)
(* std::map<std::string, ...> iterates its keys in lexicographic order.    *)
(***************************************************************************)
Alphabet == "/0123456789_abcdefghijklmnopqrstuvwxyz"

Rank(c) == Find(Alphabet, c, 1)

RECURSIVE StrLess(_, _)
StrLess(s, t) ==
  IF Len(t) = 0 THEN FALSE
  ELSE IF Len(s) = 0 THEN TRUE
  ELSE LET a == Rank(SubSeq(s, 1, 1))
           b == Rank(SubSeq(t, 1, 1))
       IN  IF a # b THEN a < b
           ELSE StrLess(SubstrFrom(s, 2), SubstrFrom(t, 2))

\* the iterator position: a key of the map, or end()
EndIt == [end |-> TRUE, key |-> ""]
At(k) == [end |-> FALSE, key |-> k]

\* sessions_.begin()
MapBegin(m) ==
  IF DOMAIN m = {} THEN EndIt
  ELSE At(CHOOSE k \in DOMAIN m : \A j \in DOMAIN m : j = k \/ StrLess(k, j))

\* ++it
MapNext(m, k) ==
  LET later == { j \in DOMAIN m : StrLess(k, j) }
  IN  IF later = {} THEN EndIt
      ELSE At(CHOOSE j \in later : \A i \in later : i = j \/ StrLess(j, i))

\* sessions_[k] = v and sessions_.erase(k)
MapPut(m, k, v) == [j \in DOMAIN m \cup {k} |-> IF j = k THEN v ELSE m[j]]
MapErase(m, k) == [j \in DOMAIN m \ {k} |-> m[j]]
EmptyMap == [j \in {} |-> NoSess]


(***************************************************************************)
(* Message Codec: WebSocketSession::parse_message / build_message.         *)
(***************************************************************************)
MessageTypes == {"OFFER", "ANSWER", "ICE_CANDIDATE", "JOIN", "LEAVE", "ERROR",
                 "VIEWER_JOINED", "VIEWER_LEFT"}

\* the room_id field of a JOIN frame: the text between "room_id":" and the next quote
ParseRoomId(json) ==
  LET room_pos == Find(json, "\"room_id\":\"", 1)
      start == room_pos + 11
      end == Find(json, "\"", start)
  IN  IF room_pos # 0 /\ end # 0 THEN SubSeq(json, start, end - 1) ELSE ""

ParseTypeLoose(json) ==
  IF Contains(json, "join") \/ Contains(json, "JOIN") THEN "JOIN"
  ELSE IF Contains(json, "offer") THEN "OFFER"
  ELSE IF Contains(json, "answer") THEN "ANSWER"
  ELSE IF Contains(json, "candidate") THEN "ICE_CANDIDATE"
  ELSE IF Contains(json, "leave") THEN "LEAVE"
  ELSE "ERROR"

\* parse_message: the type, by the first marker found
ParseType(json) ==
  IF Contains(json, "\"type\":\"join\"") \/ Contains(json, "\"type\":\"JOIN\"") THEN "JOIN"
  ELSE IF Contains(json, "\"type\":\"offer\"") THEN "OFFER"
  ELSE IF Contains(json, "\"type\":\"answer\"") THEN "ANSWER"
  ELSE IF Contains(json, "\"type\":\"ice_candidate\"")
          \/ Contains(json, "\"type\":\"candidate\"") THEN "ICE_CANDIDATE"
  ELSE IF Contains(json, "\"type\":\"leave\"") THEN "LEAVE"
  ELSE "ERROR"

parse_message(json) ==
  [type |-> ParseType(json),
   data |-> json,
   room_id |-> IF ParseType(json) = "JOIN" THEN ParseRoomId(json) ELSE ""]

TypeName(type) ==
  CASE type = "OFFER" -> "offer"
    [] type = "ANSWER" -> "answer"
    [] type = "ICE_CANDIDATE" -> "ice_candidate"
    [] type = "JOIN" -> "join"
    [] type = "LEAVE" -> "leave"
    [] type = "VIEWER_JOINED" -> "viewer_joined"
    [] type = "VIEWER_LEFT" -> "viewer_left"
    [] type = "ERROR" -> "error"

build_messageQuoted(type, data) ==
  "{\"type\":\"" \o TypeName(type) \o "\",\"data\":\"" \o data \o "\"}"

build_message(type, data) ==
  "{\"type\":\"" \o TypeName(type) \o "\",\"data\":" \o data \o "}"

HasHostMarkerLoose(data) == Contains(data, "host")

\* the role test of the JOIN handler
HasHostMarker(data) == Contains(data, "\"role\":\"host\"")

\* the acknowledgment the JOIN handler builds
JoinAck(peer_id, room_id) ==
  build_message("JOIN",
    "{\"peer_id\":\"" \o peer_id \o "\",\"room_id\":\"" \o room_id \o "\"}")

(***************************************************************************)
(* Inbound frames a client may send.                                       *)
(***************************************************************************)
FrJoinHostA == "{\"type\":\"join\",\"room_id\":\"a\",\"role\":\"host\"}"
FrJoinViewB == "{\"type\":\"JOIN\",\"room_id\":\"b\",\"role\": \"host\"}"
FrOffer == "{\"type\":\"offer\",\"sdp\":\"v0\"}"
FrAnswer == "{\"type\":\"answer\",\"sdp\":\"v0\"}"
FrCandidate == "{\"type\":\"candidate\"}"
FrLeave == "{\"type\":\"leave\"}"
FrJunk == "{\"kind\":\"join\"}"

Frames == {FrJoinHostA, FrJoinViewB, FrOffer, FrAnswer, FrCandidate, FrLeave,
           FrJunk}

\* parse_message on each of the frames
Parsed == [f \in Frames |-> parse_message(f)]

(***************************************************************************)
(* Handshake Protocol: HttpServer::is_websocket_upgrade and the path       *)
(* parsing of HttpServer::handle_websocket_upgrade.                        *)
(***************************************************************************)
UpperChars == "ABCDEFGHIJKLMNOPQRSTUVWXYZ"
LowerChars == "abcdefghijklmnopqrstuvwxyz"

\* ::tolower on one character
LowerChar(c) ==
  LET i == Find(UpperChars, c, 1)
  IN  IF i = 0 THEN c ELSE SubSeq(LowerChars, i, i)

RECURSIVE ToLower(_)
ToLower(s) ==
  IF Len(s) = 0 THEN "" ELSE LowerChar(SubSeq(s, 1, 1)) \o ToLower(SubstrFrom(s, 2))

\* req.headers is a std::map: header names are looked up exactly
HasHeader(req, name) == name \in DOMAIN req.headers

is_websocket_upgradeExact(req) ==
  IF ~HasHeader(req, "Upgrade") \/ ~HasHeader(req, "Connection")
     \/ ~HasHeader(req, "Sec-WebSocket-Key")
  THEN FALSE
  ELSE Contains(req.headers["Upgrade"], "websocket")

\* HttpServer::is_websocket_upgrade
is_websocket_upgrade(req) ==
  IF ~HasHeader(req, "Upgrade") \/ ~HasHeader(req, "Connection")
     \/ ~HasHeader(req, "Sec-WebSocket-Key")
  THEN FALSE
  ELSE Contains(ToLower(req.headers["Upgrade"]), "websocket")

ParseUpgradePathAnyRole(path) ==
  LET room_pos == Find(path, "/room/", 1)
      id_start == room_pos + 6
      id_end == IF room_pos = 0 THEN 0 ELSE Find(path, "/", id_start)
      room_id == IF id_end = 0 THEN "" ELSE SubSeq(path, id_start, id_end - 1)
      role == IF id_end = 0 THEN "" ELSE SubstrFrom(path, id_end + 1)
  IN  IF room_id = ""
      THEN [ok |-> FALSE, room_id |-> "", is_host |-> FALSE]
      ELSE [ok |-> TRUE, room_id |-> room_id, is_host |-> (role = "host")]

\* the outcome of the path parsing: rejected, or (room_id, is_host)
ParseUpgradePath(path) ==
  LET room_pos == Find(path, "/room/", 1)
      id_start == room_pos + 6
      id_end == IF room_pos = 0 THEN 0 ELSE Find(path, "/", id_start)
      room_id == IF id_end = 0 THEN "" ELSE SubSeq(path, id_start, id_end - 1)
      role == IF id_end = 0 THEN "" ELSE SubstrFrom(path, id_end + 1)
  IN  IF id_end # 0 /\ role # "host" /\ role # "viewer"
      THEN [ok |-> FALSE, room_id |-> room_id, is_host |-> FALSE]
      ELSE IF room_id = ""
      THEN [ok |-> FALSE, room_id |-> "", is_host |-> FALSE]
      ELSE [ok |-> TRUE, room_id |-> room_id, is_host |-> (role = "host")]

(***************************************************************************)
(* HttpServer::compute_websocket_accept: SHA-1 of key + magic, in base64.  *)
(* A 32-bit word is a pair <<high, low>> of 16-bit halves.                 *)
(***************************************************************************)
\* the byte of a character of a key or of the magic string
Ord(c) ==
  IF Find("0123456789", c, 1) # 0 THEN 47 + Find("0123456789", c, 1)
  ELSE IF Find(UpperChars, c, 1) # 0 THEN 64 + Find(UpperChars, c, 1)
  ELSE IF Find(LowerChars, c, 1) # 0 THEN 96 + Find(LowerChars, c, 1)
  ELSE IF c = "+" THEN 43
  ELSE IF c = "-" THEN 45
  ELSE IF c = "/" THEN 47
  ELSE 61

\* input.c_str(), input.length()
Bytes(s) == [i \in 1..Len(s) |-> Ord(SubSeq(s, i, i))]

RECURSIVE And16(_, _)
And16(a, b) ==
  IF a = 0 \/ b = 0 THEN 0
  ELSE (a % 2) * (b % 2) + 2 * And16(a \div 2, b \div 2)

WAnd(x, y) == <<And16(x[1], y[1]), And16(x[2], y[2])>>
WXor(x, y) == <<x[1] + y[1] - 2 * And16(x[1], y[1]), x[2] + y[2] - 2 * And16(x[2], y[2])>>

\* addition modulo 2^32
WAdd(x, y) ==
  LET lo == x[2] + y[2]
  IN  <<(x[1] + y[1] + lo \div 65536) % 65536, lo % 65536>>

\* rotation to the left by n bits, 0 < n < 32, n # 16
RotL(x, n) ==
  LET y == IF n > 16 THEN <<x[2], x[1]>> ELSE x
      k == IF n > 16 THEN n - 16 ELSE n
  IN  <<((y[1] * 2^k) % 65536) + (y[2] \div 2^(16 - k)),
        ((y[2] * 2^k) % 65536) + (y[1] \div 2^(16 - k))>>

\* the message padded to whole 64-byte blocks: 0x80, zeros, the length in bits
Padded(bytes) ==
  LET n == Len(bytes)
      z == (64 + 55 - (n % 64)) % 64
      bits == 8 * n
  IN  bytes \o <<128>> \o [i \in 1..(z + 5) |-> 0]
        \o <<(bits \div 65536) % 256, (bits \div 256) % 256, bits % 256>>

\* the sixteen big-endian words of block b (from 0) of the padded message
BlockWords(p, b) ==
  [i \in 1..16 |->
     LET o == 64 * b + 4 * (i - 1)
     IN  <<p[o + 1] * 256 + p[o + 2], p[o + 3] * 256 + p[o + 4]>>]

\* the message schedule extended to n words
RECURSIVE Schedule(_, _)
Schedule(w, n) ==
  IF n - Len(w) = 1
  THEN Append(w, RotL(WXor(WXor(w[n - 3], w[n - 8]), WXor(w[n - 14], w[n - 16])), 1))
  ELSE LET mid == Len(w) + (n - Len(w)) \div 2
       IN  CHOOSE r \in { Schedule(x, n) : x \in {Schedule(w, mid)} } : TRUE

RoundF(t, b, c, d) ==
  IF t < 20 THEN WXor(WAnd(b, c), WAnd(<<65535 - b[1], 65535 - b[2]>>, d))
  ELSE IF t < 40 THEN WXor(WXor(b, c), d)
  ELSE IF t < 60 THEN WXor(WXor(WAnd(b, c), WAnd(b, d)), WAnd(c, d))
  ELSE WXor(WXor(b, c), d)

RoundK(t) ==
  IF t < 20 THEN <<23170, 31129>>
  ELSE IF t < 40 THEN <<28377, 60321>>
  ELSE IF t < 60 THEN <<36635, 48348>>
  ELSE <<51810, 49622>>

\* round t on the working state v = <<a, b, c, d, e>>
Round(v, w, t) ==
  LET temp == WAdd(WAdd(WAdd(RotL(v[1], 5), RoundF(t, v[2], v[3], v[4])),
                        WAdd(v[5], RoundK(t))), w[t + 1])
  IN  <<temp, v[1], RotL(v[2], 30), v[3], v[4]>>

\* rounds lo..hi-1 in order; the first half is a value before the second starts
RECURSIVE Rounds(_, _, _, _)
Rounds(v, w, lo, hi) ==
  IF hi - lo = 1 THEN Round(v, w, lo)
  ELSE LET mid == lo + (hi - lo) \div 2
       IN  CHOOSE r \in { Rounds(x, w, mid, hi) : x \in {Rounds(v, w, lo, mid)} } : TRUE

\* the blocks from b on, chained from the hash value h
RECURSIVE ShaBlocks(_, _, _)
ShaBlocks(h, p, b) ==
  IF 64 * b >= Len(p) THEN h
  ELSE CHOOSE r \in
         { ShaBlocks(n, p, b + 1) :
             n \in { <<WAdd(h[1], v[1]), WAdd(h[2], v[2]), WAdd(h[3], v[3]),
                       WAdd(h[4], v[4]), WAdd(h[5], v[5])>> :
                      v \in { Rounds(h, w, 0, 80) :
                                w \in {Schedule(BlockWords(p, b), 80)} } } } : TRUE

\* SHA1(data, len, hash): the twenty bytes of the digest
SHA1(bytes) ==
  LET h0 == <<<<26437, 8961>>, <<61389, 43913>>, <<39098, 56574>>, <<4146, 21622>>,
              <<50130, 57840>>>>
      h == ShaBlocks(h0, Padded(bytes), 0)
  IN  [i \in 1..20 |->
         LET x == h[(i - 1) \div 4 + 1]
             j == (i - 1) % 4
         IN  IF j = 0 THEN x[1] \div 256
             ELSE IF j = 1 THEN x[1] % 256
             ELSE IF j = 2 THEN x[2] \div 256
             ELSE x[2] % 256]

\* the base64 digit of a six-bit value
B64(n) == SubSeq(UpperChars \o LowerChars \o "0123456789+/", n + 1, n + 1)

\* the base64 text of a byte string, in one line
RECURSIVE Base64(_)
Base64(bytes) ==
  IF Len(bytes) = 0 THEN ""
  ELSE IF Len(bytes) = 1
  THEN B64(bytes[1] \div 4) \o B64((bytes[1] % 4) * 16) \o "=="
  ELSE IF Len(bytes) = 2
  THEN B64(bytes[1] \div 4) \o B64((bytes[1] % 4) * 16 + bytes[2] \div 16)
         \o B64((bytes[2] % 16) * 4) \o "="
  ELSE B64(bytes[1] \div 4) \o B64((bytes[1] % 4) * 16 + bytes[2] \div 16)
         \o B64((bytes[2] % 16) * 4 + bytes[3] \div 64) \o B64(bytes[3] % 64)
         \o Base64(SubSeq(bytes, 4, Len(bytes)))

\* const std::string magic
magic == "258EAFA5-E914-47DA-95CA-C5AB0DC85B11"

\* BIO_write through BIO_f_base64 and BIO_flush: one line, ended by a newline
\* unless BIO_FLAGS_BASE64_NO_NL is set
BioBase64(bytes, no_nl) == Base64(bytes) \o (IF no_nl THEN "" ELSE "\n")

compute_websocket_acceptSwapped(key) == BioBase64(SHA1(Bytes(magic \o key)), TRUE)

\* HttpServer::compute_websocket_accept
compute_websocket_accept(key) == BioBase64(SHA1(Bytes(key \o magic)), TRUE)

\* the peer id the HTTP layer synthesizes
SynthPeerId(room_id, is_host, now) ==
  room_id \o "_" \o (IF is_host THEN "host" ELSE "viewer") \o "_" \o ToString(now)

\* the request path /room/<id>/<role>
RoomPath(id, role) == "/room/" \o id \o "/" \o role

SampleKey == "dGhlIHNhbXBsZSBub25jZQ=="
OtherKey == "x3JJHMbDL1EzLkh9GBhXDw=="

\* header sets a client may send
HdrsFull == [h \in {"Upgrade", "Connection", "Sec-WebSocket-Key"} |->
               IF h = "Upgrade" THEN "WebSocket"
               ELSE IF h = "Connection" THEN "Upgrade" ELSE SampleKey]
HdrsNoKey == [h \in {"Upgrade", "Connection"} |->
               IF h = "Upgrade" THEN "websocket" ELSE "Upgrade"]
HdrsLower == [h \in {"Upgrade", "Connection", "Sec-WebSocket-Key"} |->
               IF h = "Upgrade" THEN "websocket"
               ELSE IF h = "Connection" THEN "keep-alive, Upgrade" ELSE OtherKey]
HdrsNoUpgrade == [h \in {"Connection", "Sec-WebSocket-Key"} |->
               IF h = "Connection" THEN "Upgrade" ELSE SampleKey]
HdrsNoConnection == [h \in {"Upgrade", "Sec-WebSocket-Key"} |->
               IF h = "Upgrade" THEN "websocket" ELSE SampleKey]
HdrsOther == [h \in {"Upgrade", "Connection", "Sec-WebSocket-Key"} |->
               IF h = "Upgrade" THEN "h2c"
               ELSE IF h = "Connection" THEN "Upgrade" ELSE SampleKey]
HeaderSets == {HdrsFull, HdrsLower, HdrsNoKey, HdrsNoUpgrade, HdrsNoConnection,
               HdrsOther}

\* the values of Sec-WebSocket-Key a client may send
WsKeys == {SampleKey, OtherKey, "", "AQIDBAUGBwgJCgsMDQ4PEC=="}

\* room ids and role segments a client may put in the path
PathIds == {"a", ""}
PathRoles == {"host", "viewer", "admin"}

\* the requests a client may send
Requests == { [path |-> RoomPath(id, role), headers |-> hdr] :
                id \in PathIds, role \in PathRoles, hdr \in HeaderSets }

(***************************************************************************)
(* State.                                                                  *)
(***************************************************************************)
VARIABLES
  running,         \* WebSocketServer::running_
  acceptorOpen,    \* acceptor_.is_open()
  iocStopped,      \* ioc_.stopped()
  ioThread,        \* accept_thread_: "none", "running" or "finished"
  acceptPending,   \* an async_accept is outstanding
  sessions,        \* WebSocketServer::sessions_ : peer id -> session
  sessions_mutex,  \* holder of sessions_mutex_, or "none"
  sess,            \* the WebSocketSession objects
  send_mutex,      \* per session: holder of send_mutex_, or "none"
  writing,         \* per session: ws_.write calls in flight
  wsAttached,      \* HttpServer::websocket_server_ is set
  clock,           \* the last reading of system_clock
  fdState,         \* the sockets the HTTP layer accepted
  peers,           \* StreamingServer: the peers add_peer created
  pcHttp, http,    \* the handle_client thread
  pcIo, io,        \* the io thread
  pcApi, api,      \* the thread calling the registry's public operations
  pcStop,          \* the thread calling stop()
  hist             \* history of calls, read by the properties only

vars == <<running, acceptorOpen, iocStopped, ioThread, acceptPending, sessions,
          sessions_mutex, sess, send_mutex, writing, wsAttached, clock, fdState,
          peers, pcHttp, http, pcIo, io, pcApi, api, pcStop, hist>>

serverVars == <<running, acceptorOpen, iocStopped, ioThread, acceptPending>>
httpVars == <<pcHttp, http>>
ioVars == <<pcIo, io>>
apiVars == <<pcApi, api>>
stopVars == <<pcStop>>

Unused == [st |-> "unused", via |-> "", open |-> FALSE, room_id |-> "",
           peer_id |-> "", is_host |-> FALSE, loop |-> "none", fd |-> 0]

\* WebSocketSession(socket, server): unbound, is_host_ false
NativeSession ==
  [st |-> "live", via |-> "native", open |-> FALSE, room_id |-> "",
   peer_id |-> "", is_host |-> FALSE, loop |-> "handshake", fd |-> 0]

\* WebSocketSession(socket, server, room_id, peer_id, is_host): pre-bound
HandoffSession(room_id, peer_id, is_host, fd) ==
  [st |-> "live", via |-> "handoff", open |-> TRUE, room_id |-> room_id,
   peer_id |-> peer_id, is_host |-> is_host, loop |-> "none", fd |-> fd]

FreeSess == { s \in SessIds : sess[s].st = "unused" }
NewSess == Min(FreeSess)
Live == { s \in SessIds : sess[s].st = "live" }
Registered == { sessions[k] : k \in DOMAIN sessions }

HistInit ==
  [removeCalls |-> [s \in SessIds |-> 0],   \* remove_peer calls made for a session
   leaves |-> [s \in SessIds |-> 0],        \* LEAVE frames handled while bound
   frames |-> 0,                            \* frames handled so far
   conns |-> 0,                             \* sockets the HTTP layer accepted
   added |-> 0,                             \* peers add_peer created
   given |-> [s \in SessIds |-> {}],        \* peer ids add_peer returned to a session
   natives |-> 0,                           \* connections on_accept was given
   starts |-> 0,                            \* successful calls of start()
   ioSends |-> <<>>,                        \* send calls of the running handler
   bcCount |-> [s \in SessIds |-> 0],       \* send calls of the running registry call
   bcDirty |-> FALSE,                       \* a session was rebound during the scan
   bcSnap |-> EmptyMap,                     \* the registry when the scan began
   teardown |-> FALSE,                      \* stop() has begun closing sessions
   stopDone |-> FALSE,                      \* stop() of a running server returned
   closedByStop |-> {},                     \* sessions stop() called close() on
   writeAfterStop |-> FALSE,                \* a session was written to after stop()
   writeFailed |-> {},                      \* sessions a write of the io thread failed on
   wsCloses |-> [s \in SessIds |-> 0]]      \* ws_.close calls made on a session's stream

Init ==
  /\ running = FALSE
  /\ acceptorOpen = FALSE
  /\ iocStopped = FALSE
  /\ ioThread = "none"
  /\ acceptPending = FALSE
  /\ sessions = EmptyMap
  /\ sessions_mutex = "none"
  /\ sess = [s \in SessIds |-> Unused]
  /\ send_mutex = [s \in SessIds |-> "none"]
  /\ writing = [s \in SessIds |-> 0]
  /\ wsAttached \in BOOLEAN
  /\ clock = 0
  /\ fdState = [n \in FdIds |-> "unused"]
  /\ peers = {}
  /\ pcHttp = "idle" /\ http = [sess |-> NoSess, peer_id |-> "", accept |-> ""]
  /\ pcIo = "idle" /\ io = [sess |-> NoSess, kind |-> "", msg |-> "", ret |-> ""]
  /\ pcApi = "idle"
  /\ api = [op |-> "", room |-> "", msg |-> "", excl |-> "", peer |-> "",
            it |-> EndIt, target |-> NoSess]
  /\ pcStop = "idle"
  /\ hist = HistInit

(***************************************************************************)
(* The HTTP layer: HttpServer::handle_client on an accepted socket.        *)
(***************************************************************************)
UpgradeDecisionWriteFirst(req, attached, writeOk) ==
  IF ~attached THEN "no_server"
  ELSE IF ~writeOk THEN "write_failed"
  ELSE IF ~ParseUpgradePath(req.path).ok THEN "bad_path"
  ELSE IF ~HasHeader(req, "Sec-WebSocket-Key") THEN "no_key"
  ELSE "handoff"

\* where handle_websocket_upgrade returns, given whether write() succeeds
UpgradeDecision(req, attached, writeOk) ==
  IF ~attached THEN "no_server"
  ELSE IF ~ParseUpgradePath(req.path).ok THEN "bad_path"
  ELSE IF ~HasHeader(req, "Sec-WebSocket-Key") THEN "no_key"
  ELSE IF ~writeOk THEN "write_failed"
  ELSE "handoff"

\* is_websocket_upgrade, the path parsing and the decision on each of the requests
IsUpgrade == [req \in Requests |-> is_websocket_upgrade(req)]
\* compute_websocket_accept on each of the keys a client may send
AcceptOf == [key \in WsKeys |-> compute_websocket_accept(key)]
UpgradePath == [req \in Requests |-> ParseUpgradePath(req.path)]
Decision == [req \in Requests |->
               [attached \in BOOLEAN |->
                  [writeOk \in BOOLEAN |-> UpgradeDecision(req, attached, writeOk)]]]

\* handle_client: a request that is routed or whose upgrade is rejected; the HTTP
\* layer closes the socket
HttpReject(req, writeOk) ==
  LET fd == hist.conns + 1
  IN  /\ pcHttp = "idle"
      /\ hist.conns < MaxConns
      /\ \/ ~IsUpgrade[req]
         \/ Decision[req][wsAttached][writeOk] # "handoff"
      /\ fdState' = [fdState EXCEPT
            ![fd] = IF IsUpgrade[req] THEN "closed" ELSE "routed"]
      /\ hist' = [hist EXCEPT !.conns = fd]
      /\ UNCHANGED <<serverVars, sessions, sessions_mutex, sess, send_mutex, writing,
                     wsAttached, clock, peers, httpVars, ioVars, apiVars, stopVars>>

\* handle_client: the 101 response is written and the socket is passed to
\* accept_upgraded_connection, where socket.assign throws: the exception is caught
\* and handle_websocket_upgrade returns true
HttpHandoffFails(req) ==
  LET fd == hist.conns + 1
  IN  /\ pcHttp = "idle"
      /\ hist.conns < MaxConns
      /\ IsUpgrade[req]
      /\ Decision[req][wsAttached][TRUE] = "handoff"
      /\ \E now \in clock..MaxClock : clock' = now
      /\ fdState' = [fdState EXCEPT ![fd] = "orphan"]
      /\ hist' = [hist EXCEPT !.conns = fd]
      /\ UNCHANGED <<serverVars, sessions, sessions_mutex, sess, send_mutex, writing,
                     wsAttached, peers, httpVars, ioVars, apiVars, stopVars>>

\* handle_client: the 101 response is written, the peer id synthesized and
\* accept_upgraded_connection constructs the pre-bound session
HttpHandoff(req) ==
  LET fd == hist.conns + 1
      up == UpgradePath[req]
  IN  /\ pcHttp = "idle"
      /\ hist.conns < MaxConns
      /\ FreeSess # {}
      /\ IsUpgrade[req]
      /\ Decision[req][wsAttached][TRUE] = "handoff"
      /\ \E now \in clock..MaxClock :
           /\ clock' = now
           /\ sess' = [sess EXCEPT ![NewSess] =
                 HandoffSession(up.room_id, SynthPeerId(up.room_id, up.is_host, now),
                                up.is_host, fd)]
           /\ http' = [sess |-> NewSess,
                       peer_id |-> SynthPeerId(up.room_id, up.is_host, now),
                       accept |-> AcceptOf[req.headers["Sec-WebSocket-Key"]]]
      /\ pcHttp' = "register"
      /\ fdState' = [fdState EXCEPT ![fd] = "session"]
      /\ hist' = [hist EXCEPT !.conns = fd]
      /\ UNCHANGED <<serverVars, sessions, sessions_mutex, send_mutex, writing,
                     wsAttached, peers, ioVars, apiVars, stopVars>>

RegisterLocksNone == TRUE

\* std::lock_guard in register_session
RegisterLocks == sessions_mutex = "none"

\* sessions_[peer_id] = session
register_session(m, peer_id, s) == MapPut(m, peer_id, s)

unregister_sessionClears(m, peer_id) == EmptyMap

\* sessions_.erase(peer_id)
unregister_session(m, peer_id) == MapErase(m, peer_id)

\* accept_upgraded_connection: register_session(peer_id, session) under the registry
\* lock, then session->run_already_upgraded(), which calls do_read
HttpRegister ==
  /\ pcHttp = "register"
  /\ RegisterLocks
  /\ sessions' = register_session(sessions, http.peer_id, http.sess)
  /\ sess' = [sess EXCEPT ![http.sess].loop = "reading"]
  /\ pcHttp' = "idle"
  /\ http' = [sess |-> NoSess, peer_id |-> "", accept |-> ""]
  /\ UNCHANGED <<serverVars, sessions_mutex, send_mutex, writing, wsAttached, clock,
                 fdState, peers, ioVars, apiVars, stopVars, hist>>

(***************************************************************************)
(* WebSocketSession::close and the write of WebSocketSession::send.        *)
(***************************************************************************)
closeNothing(ses) == ses

\* close(): ws_.close() if ws_.is_open(); an exception is caught
close(ses) == IF ses.open THEN [ses EXCEPT !.open = FALSE] ELSE ses

SendLocksNone(s) == TRUE

\* std::lock_guard in send: the send may begin its write
SendLocks(s) == send_mutex[s] = "none"

(***************************************************************************)
(* WebSocketServer::start and WebSocketServer::stop, called by one         *)
(* controlling thread.                                                     *)
(***************************************************************************)
\* start(): the acceptor is opened and bound, the accept thread started; its
\* ioc_.run() returns at once if ioc_ was stopped before
Start ==
  /\ pcStop = "idle"
  /\ ~running
  /\ ~acceptorOpen
  /\ hist.starts < MaxStarts
  /\ acceptorOpen' = TRUE
  /\ running' = TRUE
  /\ ioThread' = IF iocStopped THEN "finished" ELSE "running"
  /\ acceptPending' = TRUE
  /\ hist' = [hist EXCEPT !.teardown = FALSE, !.stopDone = FALSE,
                          !.starts = @ + 1]
  /\ UNCHANGED <<iocStopped, sessions, sessions_mutex, sess, send_mutex, writing,
                 wsAttached, clock, fdState, peers, httpVars, ioVars, apiVars,
                 stopVars>>

\* start(): bind or listen throws after the acceptor was opened
StartFails ==
  /\ pcStop = "idle"
  /\ ~running
  /\ ~acceptorOpen
  /\ acceptorOpen' = TRUE
  /\ UNCHANGED <<running, iocStopped, ioThread, acceptPending, sessions,
                 sessions_mutex, sess, send_mutex, writing, wsAttached, clock,
                 fdState, peers, httpVars, ioVars, apiVars, stopVars, hist>>

\* stop(): running_ = false
StopBegin ==
  /\ pcStop = "idle"
  /\ running
  /\ running' = FALSE
  /\ pcStop' = "lock"
  /\ UNCHANGED <<acceptorOpen, iocStopped, ioThread, acceptPending, sessions,
                 sessions_mutex, sess, send_mutex, writing, wsAttached, clock,
                 fdState, peers, httpVars, ioVars, apiVars, hist>>

StopLocksNone == TRUE

\* std::lock_guard in stop
StopLocks == sessions_mutex = "none"

\* the sessions after stop() called close() on every registered one
CloseAll(ss, m) ==
  [s \in SessIds |-> IF s \in { m[k] : k \in DOMAIN m } THEN close(ss[s]) ELSE ss[s]]

\* stop(): under the registry lock every registered session is closed and sessions_
\* cleared; then acceptor_.close() and ioc_.stop()
StopTeardown ==
  /\ pcStop = "lock"
  /\ StopLocks
  /\ sess' = CloseAll(sess, sessions)
  /\ sessions' = EmptyMap
  /\ acceptorOpen' = FALSE
  /\ iocStopped' = TRUE
  /\ pcStop' = "join"
  /\ hist' = [hist EXCEPT
        !.teardown = TRUE,
        !.closedByStop = Registered,
        !.wsCloses = [s \in SessIds |->
                        IF s \in Registered /\ sess[s].open THEN @[s] + 1 ELSE @[s]]]
  /\ UNCHANGED <<running, ioThread, acceptPending, sessions_mutex, send_mutex,
                 writing, wsAttached, clock, fdState, peers, httpVars, ioVars,
                 apiVars>>

\* stop(): accept_thread_.join() returns once the io thread has left its handler
StopJoin ==
  /\ pcStop = "join"
  /\ pcIo = "idle"
  /\ ioThread' = "none"
  /\ pcStop' = "idle"
  /\ hist' = [hist EXCEPT !.stopDone = TRUE]
  /\ UNCHANGED <<running, acceptorOpen, iocStopped, acceptPending, sessions,
                 sessions_mutex, sess, send_mutex, writing, wsAttached, clock,
                 fdState, peers, httpVars, ioVars, apiVars>>

(***************************************************************************)
(* The io thread: ioc_.run() in accept_thread_ runs one completion handler *)
(* at a time.                                                              *)
(***************************************************************************)
IoDispatch == ioThread = "running" /\ ~iocStopped /\ pcIo = "idle"

IoIdle == [sess |-> NoSess, kind |-> "", msg |-> "", ret |-> ""]

\* a scan of broadcast_to_room is under way
Scanning == pcApi \in {"visit", "send", "write"} /\ api.op = "broadcast"

AcceptAgainUnlessError(failed) == running /\ ~failed

\* on_accept, after the error was logged or the session run: do_accept() if running_
AcceptAgain(failed) == running

\* on_accept without error: a session is constructed and run() starts its handshake;
\* accepting continues while running_
OnAccept ==
  /\ IoDispatch
  /\ acceptPending
  /\ acceptorOpen
  /\ FreeSess # {}
  /\ hist.natives < MaxNative
  /\ sess' = [sess EXCEPT ![NewSess] = NativeSession]
  /\ acceptPending' = AcceptAgain(FALSE)
  /\ hist' = [hist EXCEPT !.natives = @ + 1]
  /\ UNCHANGED <<running, acceptorOpen, iocStopped, ioThread, sessions,
                 sessions_mutex, send_mutex, writing, wsAttached, clock, fdState,
                 peers, httpVars, ioVars, apiVars, stopVars>>

\* on_accept with an error: logged; accepting continues while running_
OnAcceptError ==
  /\ IoDispatch
  /\ acceptPending
  /\ acceptPending' = AcceptAgain(TRUE)
  /\ UNCHANGED <<running, acceptorOpen, iocStopped, ioThread, sessions,
                 sessions_mutex, sess, send_mutex, writing, wsAttached, clock,
                 fdState, peers, httpVars, ioVars, apiVars, stopVars, hist>>

\* run(): the handshake completes and do_read is called
OnHandshake(s) ==
  /\ IoDispatch
  /\ sess[s].st = "live" /\ sess[s].loop = "handshake"
  /\ sess' = [sess EXCEPT ![s].open = TRUE, ![s].loop = "reading"]
  /\ UNCHANGED <<serverVars, sessions, sessions_mutex, send_mutex, writing,
                 wsAttached, clock, fdState, peers, httpVars, ioVars, apiVars,
                 stopVars, hist>>

\* run(): the handshake fails; the last reference to the session is dropped
OnHandshakeError(s) ==
  /\ IoDispatch
  /\ sess[s].st = "live" /\ sess[s].loop = "handshake"
  /\ sess' = [sess EXCEPT ![s].st = "destroyed", ![s].loop = "exited"]
  /\ UNCHANGED <<serverVars, sessions, sessions_mutex, send_mutex, writing,
                 wsAttached, clock, fdState, peers, httpVars, ioVars, apiVars,
                 stopVars, hist>>

ReadReadyAnyLoop(s) == ioThread = "running" /\ ~iocStopped /\ sess[s].st = "live"

\* a read may complete for session s
ReadReady(s) == IoDispatch /\ sess[s].st = "live" /\ sess[s].loop = "reading"

\* on_read with an error (the peer closed, the transport failed or the stream is
\* closed): the read loop ends
OnReadError(s) ==
  /\ ReadReady(s)
  /\ sess' = [sess EXCEPT ![s].loop = "exited", ![s].open = FALSE]
  /\ UNCHANGED <<serverVars, sessions, sessions_mutex, send_mutex, writing,
                 wsAttached, clock, fdState, peers, httpVars, ioVars, apiVars,
                 stopVars, hist>>

\* a frame f was read from the open stream of s
FrameRead(s, f) == ReadReady(s) /\ sess[s].open /\ hist.frames < MaxFrames

\* StreamingServer::add_peer: a new peer id, or the empty id on failure
AddPeerResults == {"", "p" \o ToString(hist.added + 1)}

\* on_read, handle_message JOIN: room_id_, is_host_ and peer_id_ = add_peer(...) are
\* assigned and the ack is built
OnReadJoin(s, f) ==
  /\ FrameRead(s, f)
  /\ Parsed[f].type = "JOIN"
  /\ \E ret \in AddPeerResults :
       /\ peers' = IF ret = "" THEN peers ELSE peers \cup {ret}
       /\ sess' = [sess EXCEPT ![s].room_id = Parsed[f].room_id,
                               ![s].is_host = HasHostMarker(Parsed[f].data),
                               ![s].peer_id = ret]
       /\ io' = [sess |-> s, kind |-> "JOIN", ret |-> ret,
                 msg |-> JoinAck(ret, Parsed[f].room_id)]
       /\ hist' = [hist EXCEPT !.frames = @ + 1, !.ioSends = <<>>,
                               !.bcDirty = @ \/ Scanning,
                               !.added = IF ret = "" THEN @ ELSE @ + 1,
                               !.given[s] = IF ret = "" THEN @ ELSE @ \cup {ret}]
  /\ pcIo' = "send"
  /\ UNCHANGED <<serverVars, sessions, sessions_mutex, send_mutex, writing,
                 wsAttached, clock, fdState, httpVars, apiVars, stopVars>>

\* on_read, handle_message OFFER: the answer-typed echo is built
OnReadOffer(s, f) ==
  /\ FrameRead(s, f)
  /\ Parsed[f].type = "OFFER"
  /\ pcIo' = "send"
  /\ io' = [IoIdle EXCEPT !.sess = s, !.kind = "OFFER",
                          !.msg = build_message("ANSWER", Parsed[f].data)]
  /\ hist' = [hist EXCEPT !.frames = @ + 1, !.ioSends = <<>>]
  /\ UNCHANGED <<serverVars, sessions, sessions_mutex, sess, send_mutex, writing,
                 wsAttached, clock, fdState, peers, httpVars, apiVars, stopVars>>

\* on_read, handle_message ANSWER / ICE_CANDIDATE / default: logged, then do_read
OnReadOther(s, f) ==
  /\ FrameRead(s, f)
  /\ Parsed[f].type \in {"ANSWER", "ICE_CANDIDATE", "ERROR"}
  /\ hist' = [hist EXCEPT !.frames = @ + 1]
  /\ UNCHANGED <<serverVars, sessions, sessions_mutex, sess, send_mutex, writing,
                 wsAttached, clock, fdState, peers, httpVars, ioVars, apiVars,
                 stopVars>>

RemovesPeerAlways(ses) == TRUE

\* the LEAVE handler's test before remove_peer
RemovesPeer(ses) == ses.peer_id # ""

\* on_read, handle_message LEAVE: remove_peer if bound, then close() is called: it
\* finds the stream open and enters ws_.close
OnReadLeave(s, f) ==
  /\ FrameRead(s, f)
  /\ Parsed[f].type = "LEAVE"
  /\ peers' = IF RemovesPeer(sess[s]) THEN peers \ {sess[s].peer_id} ELSE peers
  /\ hist' = [hist EXCEPT
        !.frames = @ + 1,
        !.removeCalls[s] = IF RemovesPeer(sess[s]) THEN @ + 1 ELSE @,
        !.leaves[s] = IF sess[s].peer_id = "" THEN @ ELSE @ + 1,
        !.wsCloses[s] = IF sess[s].open THEN @ + 1 ELSE @]
  /\ pcIo' = "closing"
  /\ io' = [IoIdle EXCEPT !.sess = s, !.kind = "LEAVE"]
  /\ UNCHANGED <<serverVars, sessions, sessions_mutex, sess, send_mutex, writing,
                 wsAttached, clock, fdState, httpVars, apiVars, stopVars>>

\* close() in the LEAVE handler returns; then do_read
IoCloseDone ==
  /\ pcIo = "closing"
  /\ sess' = [sess EXCEPT ![io.sess] = close(sess[io.sess])]
  /\ pcIo' = "idle"
  /\ io' = IoIdle
  /\ UNCHANGED <<serverVars, sessions, sessions_mutex, send_mutex, writing,
                 wsAttached, clock, fdState, peers, httpVars, apiVars, stopVars, hist>>

\* send(): the lock is taken and ws_.write begins
IoSendLock ==
  /\ pcIo = "send"
  /\ SendLocks(io.sess)
  /\ send_mutex' = [send_mutex EXCEPT ![io.sess] = "io"]
  /\ writing' = [writing EXCEPT ![io.sess] = @ + 1]
  /\ pcIo' = "write"
  /\ hist' = [hist EXCEPT !.ioSends = Append(@, <<io.sess, io.msg>>),
                          !.writeAfterStop = @ \/ hist.stopDone]
  /\ UNCHANGED <<serverVars, sessions, sessions_mutex, sess, wsAttached, clock,
                 fdState, peers, httpVars, io, apiVars, stopVars>>

AfterFailedWriteEndsLoop(ses) == [ses EXCEPT !.loop = "exited", !.open = FALSE]

\* send(): the session after ws_.write threw: the exception is caught and logged
AfterFailedWrite(ses) == ses

\* send(): ws_.write returns (ok) or throws, as it must on a closed stream; the lock
\* is released, the handler returns and do_read is called
IoSendDone(ok) ==
  /\ pcIo = "write"
  /\ ok => sess[io.sess].open
  /\ send_mutex' = [send_mutex EXCEPT ![io.sess] = "none"]
  /\ writing' = [writing EXCEPT ![io.sess] = @ - 1]
  /\ sess' = IF ok THEN sess
             ELSE [sess EXCEPT ![io.sess] = AfterFailedWrite(sess[io.sess])]
  /\ pcIo' = "idle"
  /\ io' = IoIdle
  /\ hist' = [hist EXCEPT !.ioSends = <<>>,
                          !.writeFailed = IF ok THEN @ ELSE @ \cup {io.sess}]
  /\ UNCHANGED <<serverVars, sessions, sessions_mutex, wsAttached, clock,
                 fdState, peers, httpVars, apiVars, stopVars>>

(***************************************************************************)
(* A caller of the registry's public operations.                           *)
(***************************************************************************)
ApiIdle == [op |-> "", room |-> "", msg |-> "", excl |-> "", peer |-> "",
            it |-> EndIt, target |-> NoSess]

Msgs == {"m"}
RoomIds == {"a", "b"}
\* peer ids a caller may name
CallerIds == {"p1", "a_host_0"}

\* std::lock_guard in broadcast_to_room
BroadcastLocks == sessions_mutex = "none"

\* the test of the broadcast loop on the entry (key, session)
BroadcastMatches(key, ses, room_id, exclude_peer_id) ==
  ses.room_id = room_id /\ key # exclude_peer_id

\* broadcast_to_room(room_id, message, exclude_peer_id): the lock is taken and the
\* scan is at sessions_.begin()
BroadcastBegin(room_id, message, exclude_peer_id) ==
  /\ pcApi = "idle"
  /\ BroadcastLocks
  /\ sessions_mutex' = "api"
  /\ pcApi' = "visit"
  /\ api' = [ApiIdle EXCEPT !.op = "broadcast", !.room = room_id, !.msg = message,
                            !.excl = exclude_peer_id, !.it = MapBegin(sessions)]
  /\ hist' = [hist EXCEPT !.bcCount = [s \in SessIds |-> 0], !.bcDirty = FALSE,
                          !.bcSnap = sessions]
  /\ UNCHANGED <<serverVars, sessions, sess, send_mutex, writing, wsAttached, clock,
                 fdState, peers, httpVars, ioVars, stopVars>>

\* the loop body on the current entry: send, or go on to the next entry
BroadcastVisit ==
  /\ pcApi = "visit"
  /\ api.op = "broadcast"
  /\ ~api.it.end
  /\ api.it.key \in DOMAIN sessions
  /\ IF BroadcastMatches(api.it.key, sess[sessions[api.it.key]], api.room, api.excl)
     THEN /\ pcApi' = "send"
          /\ api' = [api EXCEPT !.target = sessions[api.it.key]]
     ELSE /\ pcApi' = "visit"
          /\ api' = [api EXCEPT !.it = MapNext(sessions, api.it.key)]
  /\ UNCHANGED <<serverVars, sessions, sessions_mutex, sess, send_mutex, writing,
                 wsAttached, clock, fdState, peers, httpVars, ioVars, stopVars, hist>>

\* the scan reached sessions_.end(): the lock is released
BroadcastEnd ==
  /\ pcApi = "visit"
  /\ api.op = "broadcast"
  /\ api.it.end
  /\ sessions_mutex' = "none"
  /\ pcApi' = "idle"
  /\ api' = ApiIdle
  /\ hist' = [hist EXCEPT !.bcCount = [s \in SessIds |-> 0], !.bcDirty = FALSE,
                          !.bcSnap = EmptyMap]
  /\ UNCHANGED <<serverVars, sessions, sess, send_mutex, writing, wsAttached, clock,
                 fdState, peers, httpVars, ioVars, stopVars>>

\* std::lock_guard in send_to_peer
SendToPeerLocks == sessions_mutex = "none"

FindSessionFirst(m, peer_id) == IF m = EmptyMap THEN NoSess ELSE m[MapBegin(m).key]

\* sessions_.find(peer_id): the session found, or none
FindSession(m, peer_id) == IF peer_id \in DOMAIN m THEN m[peer_id] ELSE NoSess

\* send_to_peer(peer_id, message): the lock is taken and the peer found
SendToPeer(peer_id, message) ==
  /\ pcApi = "idle"
  /\ SendToPeerLocks
  /\ FindSession(sessions, peer_id) # NoSess
  /\ sessions_mutex' = "api"
  /\ pcApi' = "send"
  /\ api' = [ApiIdle EXCEPT !.op = "unicast", !.msg = message, !.peer = peer_id,
                            !.target = FindSession(sessions, peer_id)]
  /\ hist' = [hist EXCEPT !.bcCount = [s \in SessIds |-> 0]]
  /\ UNCHANGED <<serverVars, sessions, sess, send_mutex, writing, wsAttached, clock,
                 fdState, peers, httpVars, ioVars, stopVars>>

\* send_to_peer(peer_id, message): the peer is not registered; nothing is sent
SendToPeerAbsent(peer_id, message) ==
  /\ pcApi = "idle"
  /\ SendToPeerLocks
  /\ FindSession(sessions, peer_id) = NoSess
  /\ UNCHANGED vars

\* send() called under the registry lock: the session's lock is taken and ws_.write
\* begins
ApiSendLock ==
  /\ pcApi = "send"
  /\ SendLocks(api.target)
  /\ send_mutex' = [send_mutex EXCEPT ![api.target] = "api"]
  /\ writing' = [writing EXCEPT ![api.target] = @ + 1]
  /\ pcApi' = "write"
  /\ hist' = [hist EXCEPT
        !.bcCount[api.target] = @ + 1,
        !.writeAfterStop = @ \/ hist.stopDone]
  /\ UNCHANGED <<serverVars, sessions, sessions_mutex, sess, wsAttached, clock,
                 fdState, peers, httpVars, ioVars, api, stopVars>>

\* send() returns: the scan goes on to the next entry, or send_to_peer returns
ApiSendDone ==
  /\ pcApi = "write"
  /\ send_mutex' = [send_mutex EXCEPT ![api.target] = "none"]
  /\ writing' = [writing EXCEPT ![api.target] = @ - 1]
  /\ IF api.op = "broadcast"
     THEN /\ pcApi' = "visit"
          /\ api' = [api EXCEPT !.it = MapNext(sessions, api.it.key),
                                !.target = NoSess]
          /\ UNCHANGED sessions_mutex
          /\ UNCHANGED hist
     ELSE /\ pcApi' = "idle"
          /\ api' = ApiIdle
          /\ sessions_mutex' = "none"
          /\ hist' = [hist EXCEPT !.bcCount = [s \in SessIds |-> 0]]
  /\ UNCHANGED <<serverVars, sessions, sess, wsAttached, clock, fdState, peers,
                 httpVars, ioVars, stopVars>>

\* std::lock_guard in unregister_session
UnregisterLocks == sessions_mutex = "none"

\* unregister_session(peer_id)
Unregister(peer_id) ==
  /\ pcApi = "idle"
  /\ UnregisterLocks
  /\ sessions' = unregister_session(sessions, peer_id)
  /\ UNCHANGED <<serverVars, sessions_mutex, sess, send_mutex, writing, wsAttached,
                 clock, fdState, peers, httpVars, ioVars, apiVars, stopVars, hist>>

\* register_session(peer_id, session) called with a live session
Register(peer_id, s) ==
  /\ pcApi = "idle"
  /\ RegisterLocks
  /\ sess[s].st = "live"
  /\ sessions' = register_session(sessions, peer_id, s)
  /\ UNCHANGED <<serverVars, sessions_mutex, sess, send_mutex, writing, wsAttached,
                 clock, fdState, peers, httpVars, ioVars, apiVars, stopVars, hist>>

(***************************************************************************)
(* The specifications.  Every one starts from Init and runs a part of the  *)
(* system's operations, so that each can be explored exhaustively:         *)
(*   SpecUpgrade   the HTTP layer's upgrade path, accepted and rejected;   *)
(*   SpecSession   the sessions' read loops with every frame type, native  *)
(*                 accepts, handoffs and stop();                           *)
(*   SpecRegistry  handoffs, JOIN and OFFER handlers and the registry's    *)
(*                 callers, all writing to the sessions concurrently;      *)
(*   SpecTeardown  start() and stop() against handoffs and the registry's  *)
(*                 callers;                                                *)
(*   SpecBroadcast the registry's operations called directly, with         *)
(*                 broadcast_to_room's default exclude_peer_id;            *)
(*   SpecLocks     every operation that takes sessions_mutex_ or a         *)
(*                 send_mutex_, with the sessions' own send and close.     *)
(***************************************************************************)
HttpHandoffStep ==
  \/ \E req \in Requests : HttpHandoff(req)
  \/ HttpRegister

HttpStep ==
  \/ \E req \in Requests :
       \/ \E writeOk \in BOOLEAN : HttpReject(req, writeOk)
       \/ HttpHandoffFails(req)
  \/ HttpHandoffStep

StopStep ==
  \/ StopBegin
  \/ StopTeardown
  \/ StopJoin

AcceptStep ==
  \/ OnAccept
  \/ OnAcceptError
  \/ \E s \in SessIds :
       \/ OnHandshake(s)
       \/ OnHandshakeError(s)

IoSendStep ==
  \/ IoSendLock
  \/ \E ok \in BOOLEAN : IoSendDone(ok)

\* the sends of the io thread when every write succeeds
IoSendOkStep ==
  \/ IoSendLock
  \/ IoSendDone(TRUE)

ReadStep ==
  \/ \E s \in SessIds :
       \/ OnReadError(s)
       \/ \E f \in Frames :
            \/ OnReadJoin(s, f)
            \/ OnReadOffer(s, f)
            \/ OnReadOther(s, f)
            \/ OnReadLeave(s, f)
  \/ IoCloseDone
  \/ IoSendStep

JoinOfferStep ==
  \/ \E s \in SessIds, f \in Frames :
       \/ OnReadJoin(s, f)
       \/ OnReadOffer(s, f)
  \/ IoSendOkStep

ApiStep ==
  \/ \E r \in RoomIds, m \in Msgs, x \in CallerIds : BroadcastBegin(r, m, x)
  \/ BroadcastVisit
  \/ BroadcastEnd
  \/ \E p \in CallerIds, m \in Msgs :
       \/ SendToPeer(p, m)
       \/ SendToPeerAbsent(p, m)
  \/ ApiSendLock
  \/ ApiSendDone
  \/ \E p \in CallerIds : Unregister(p)

NextUpgrade ==
  \/ HttpStep
  \/ Start
  \/ \E s \in SessIds :
       \/ OnReadError(s)
       \/ \E f \in Frames : OnReadOther(s, f)

NextSession == Start \/ StopStep \/ AcceptStep \/ HttpHandoffStep \/ ReadStep

NextRegistry == Start \/ HttpHandoffStep \/ JoinOfferStep \/ ApiStep

NextTeardown ==
  \/ Start
  \/ StartFails
  \/ StopStep
  \/ HttpHandoffStep
  \/ ApiStep
  \/ \E s \in SessIds : OnReadError(s)

NextBroadcast ==
  \/ HttpHandoffStep
  \/ \E s \in SessIds : Register("", s)
  \/ \E p \in CallerIds : Unregister(p)
  \/ \E r \in RoomIds, m \in Msgs : BroadcastBegin(r, m, "")
  \/ BroadcastVisit
  \/ BroadcastEnd
  \/ ApiSendLock
  \/ ApiSendDone

NextLocks ==
  \/ Start
  \/ StopStep
  \/ HttpHandoffStep
  \/ \E s \in SessIds, f \in Frames :
       \/ OnReadOffer(s, f)
       \/ OnReadLeave(s, f)
  \/ IoCloseDone
  \/ IoSendStep
  \/ ApiStep

SpecUpgrade == Init /\ [][NextUpgrade]_vars

SpecSession == Init /\ [][NextSession]_vars

SpecRegistry == Init /\ [][NextRegistry]_vars

SpecTeardown == Init /\ [][NextTeardown]_vars

SpecBroadcast == Init /\ [][NextBroadcast]_vars

SpecLocks == Init /\ [][NextLocks]_vars

(***************************************************************************)
(* Fairness: a thread that can take its next step takes it.  New requests, *)
(* frames, connections and calls of the public operations are not forced.  *)
(***************************************************************************)
ProgramStep ==
  \/ HttpRegister
  \/ StopTeardown
  \/ StopJoin
  \/ IoCloseDone
  \/ IoSendStep
  \/ \E s \in SessIds : ~sess[s].open /\ OnReadError(s)

FairSession == SpecSession /\ WF_vars(ProgramStep)

(***************************************************************************)
(* Properties.                                                             *)
(***************************************************************************)
\* the scan of broadcast_to_room has visited every entry and is about to return
ScanComplete == pcApi = "visit" /\ api.op = "broadcast" /\ api.it.end

\* C1: when broadcast_to_room(R, m, P) returns (no session having been rebound while
\* it ran), send(m) was called exactly once on every registered session whose
\* room_id is R and whose peer_id differs from P, and on no session of another room.
C1_BroadcastDelivers ==
  (ScanComplete /\ ~hist.bcDirty) =>
    \A s \in Registered :
      /\ (sess[s].room_id = api.room /\ sess[s].peer_id # api.excl)
           => hist.bcCount[s] = 1
      /\ sess[s].room_id # api.room => hist.bcCount[s] = 0

\* C2: while a scan of broadcast_to_room is under way the registry is the one the
\* scan began with: no register_session, unregister_session or stop takes effect.
C2_ScanSeesOneRegistry == Scanning => sessions = hist.bcSnap

C2_Witness ==
  /\ Scanning
  /\ DOMAIN sessions # {}
  /\ api.it.end
  /\ pcHttp = "register"
  /\ pcStop = "lock"

\* C3: at most one ws_.write of a session is in flight at any time.
C3_OneWriteInFlight == \A s \in SessIds : writing[s] <= 1

C3_Witness ==
  /\ pcIo = "write"
  /\ pcApi = "send"
  /\ api.target = io.sess
  /\ writing[io.sess] = 1

\* C4: a registered session whose read loop has exited is eventually removed from
\* the registry.
C4_ExitedIsUnregistered ==
  \A s \in SessIds :
    [](sess[s].loop = "exited" /\ s \in Registered => <>(s \notin Registered))

\* C5: remove_peer is called at most once for a session, and once a LEAVE was handled
\* on a session bound to a non-empty peer_id it was called exactly once, no second
\* LEAVE is handled, and the stream is closed when the handler has returned.
C5_LeaveRemovesOnce ==
  \A s \in SessIds :
    /\ hist.removeCalls[s] <= 1
    /\ hist.leaves[s] >= 1 =>
         /\ hist.removeCalls[s] = 1
         /\ hist.leaves[s] = 1
         /\ (pcIo = "closing" /\ io.sess = s) \/ ~sess[s].open

C5_Witness ==
  \E s \in SessIds :
    /\ hist.leaves[s] = 1
    /\ hist.removeCalls[s] = 1
    /\ sess[s].loop = "exited"
    /\ ~sess[s].open
    /\ hist.frames < MaxFrames

\* the acknowledgment a client expects for a JOIN
ExpectedAck(peer_id, room_id) ==
  "{\"type\":\"join\",\"data\":{\"peer_id\":\"" \o peer_id
     \o "\",\"room_id\":\"" \o room_id \o "\"}}"

\* JOIN frames with the room and role a client expects them to bind
JoinCases ==
  { [frame |-> FrJoinHostA, room_id |-> "a", is_host |-> TRUE],
    [frame |-> FrJoinViewB, room_id |-> "b", is_host |-> FALSE] }

\* C6: handling a JOIN frame binds the role HOST iff the frame holds the exact marker
\* "role":"host", binds room_id to the parsed room and peer_id to the value add_peer
\* returned, and when the handler returns exactly one ack, of type join and carrying
\* that peer_id and room_id, was sent, on the joining session.
C6_JoinBinds ==
  [][ /\ \A s \in SessIds, c \in JoinCases :
           OnReadJoin(s, c.frame) =>
             /\ sess'[s].is_host = c.is_host
             /\ sess'[s].room_id = c.room_id
             /\ sess'[s].peer_id = io'.ret
             /\ io'.ret # "" => io'.ret \in peers' \ peers
             /\ hist'.ioSends = <<>>
      /\ (pcIo = "write" /\ io.kind = "JOIN" /\ pcIo' = "idle") =>
           hist.ioSends =
             << <<io.sess, ExpectedAck(sess[io.sess].peer_id, sess[io.sess].room_id)>> >>
    ]_vars

C6_Witness ==
  /\ pcIo = "write"
  /\ io.kind = "JOIN"
  /\ sess[io.sess].room_id = "b"
  /\ ~sess[io.sess].is_host
  /\ sess[io.sess].peer_id = "p1"
  /\ hist.ioSends = << <<io.sess, ExpectedAck("p1", "b")>> >>

\* C7: once stop() has begun closing sessions no session is added to the registry.
C7_NoSessionAfterTeardown ==
  [][ (hist.teardown /\ hist'.teardown) => DOMAIN sessions' \subseteq DOMAIN sessions ]_vars

\* C8: after stop() returned the registry is empty, every session stop() found
\* registered is closed, and no session is written to.
C8_StoppedIsQuiet ==
  hist.stopDone =>
    /\ sessions = EmptyMap
    /\ \A s \in hist.closedByStop : ~sess[s].open
    /\ ~hist.writeAfterStop

\* the number of owners of a socket the HTTP layer accepted
FdOwners(n) == IF fdState[n] \in {"http", "session"} THEN 1 ELSE 0

\* socket n was passed to accept_upgraded_connection
HandedOff(n) == fdState[n] \in {"session", "orphan"}

\* C9: every socket passed to accept_upgraded_connection has exactly one owner.
C9_HandedOffHasOneOwner == \A n \in FdIds : HandedOff(n) => FdOwners(n) = 1

\* the step constructs session s for an upgraded connection
Created(s) == sess[s].st = "unused" /\ sess'[s].st = "live" /\ sess'[s].via = "handoff"

\* handle_client on an upgrade request, whatever its outcome
HandleUpgrade(req) ==
  \/ \E writeOk \in BOOLEAN : HttpReject(req, writeOk)
  \/ HttpHandoffFails(req)
  \/ HttpHandoff(req)

\* the path condition: a non-empty id and a role of exactly host or viewer
ValidPath(id, role) == id # "" /\ role \in {"host", "viewer"}

\* the upgrade request with a valid key and path /room/<id>/<role>
UpgradeRequest(id, role) == [path |-> RoomPath(id, role), headers |-> HdrsFull]

\* C10 as stated: an upgrade request with a valid key and path /room/<id>/<role>
\* creates a session iff the id is non-empty and the role is exactly host or viewer.
C10_CreatedIffValidPath ==
  [][ \A id \in PathIds, role \in PathRoles :
        HandleUpgrade(UpgradeRequest(id, role)) =>
          ((\E s \in SessIds : Created(s)) <=> ValidPath(id, role)) ]_vars

\* C10 amended: with a WebSocket server attached, the 101 response written and the
\* socket assigned, a session is created iff the id is non-empty and the role is
\* exactly host or viewer; otherwise none is created.  The created session has
\* room_id = <id> and the role of the path, is registered under its synthesized
\* peer id and is reading frames with no handshake of its own.
C10_UpgradeCreatesSession ==
  [][ /\ \A id \in PathIds, role \in PathRoles :
           LET req == UpgradeRequest(id, role)
           IN  /\ \A writeOk \in BOOLEAN :
                     HttpReject(req, writeOk) =>
                       /\ ~(ValidPath(id, role) /\ wsAttached /\ writeOk)
                       /\ ~\E s \in SessIds : Created(s)
               /\ HttpHandoffFails(req) => ~\E s \in SessIds : Created(s)
               /\ HttpHandoff(req) =>
                    /\ ValidPath(id, role) /\ wsAttached
                    /\ \E s \in SessIds :
                         /\ Created(s)
                         /\ sess'[s].room_id = id
                         /\ sess'[s].is_host = (role = "host")
                         /\ sess'[s].peer_id =
                              id \o "_" \o role \o "_" \o ToString(clock')
                         /\ http'.sess = s
                         /\ http'.peer_id = sess'[s].peer_id
      /\ HttpRegister =>
           /\ http.peer_id \in DOMAIN sessions'
           /\ sessions'[http.peer_id] = http.sess
           /\ sess'[http.sess].peer_id = http.peer_id
           /\ sess'[http.sess].open
           /\ sess[http.sess].loop = "none"
           /\ sess'[http.sess].loop = "reading"
    ]_vars

C10_Witness ==
  \E s \in Registered :
    /\ sess[s].via = "handoff"
    /\ sess[s].room_id = "a"
    /\ ~sess[s].is_host
    /\ sess[s].loop = "reading"
    /\ sess[s].open
    /\ sess[s].peer_id \in DOMAIN sessions
    /\ sessions[sess[s].peer_id] = s

\* C11: a natively accepted session that a JOIN bound to a non-empty peer id P is,
\* like a session handed off with P, registered under P (and so reached by
\* send_to_peer(P, m) and broadcast_to_room).
C11_NativeIsRegistered ==
  \A s \in SessIds :
    (/\ sess[s].via = "native"
     /\ sess[s].st = "live"
     /\ sess[s].peer_id # ""
     /\ pcIo = "idle"
     /\ ~hist.teardown)
      => /\ sess[s].peer_id \in DOMAIN sessions
         /\ sessions[sess[s].peer_id] = s

\* C12: two live handed-off sessions never hold the same peer id.
C12_HandoffIdsDiffer ==
  \A s, t \in SessIds :
    (/\ s # t
     /\ sess[s].st = "live" /\ sess[s].via = "handoff"
     /\ sess[t].st = "live" /\ sess[t].via = "handoff")
      => sess[s].peer_id # sess[t].peer_id

\* peer ids the registry's operations are tried with: the registered ones and others
TriedIds == DOMAIN sessions \cup CallerIds

\* C13: on every registry, register_session(p, s) followed by unregister_session(p)
\* leaves no key p and every other entry as it was; unregister_session(p) for an
\* absent p leaves the registry as it was; and a call of unregister_session(p) changes
\* the registry in just this way.
C13_RegisterUnregister ==
  /\ [](\A p \in TriedIds, s \in SessIds :
          LET after == unregister_session(register_session(sessions, p, s), p)
          IN  /\ DOMAIN after = DOMAIN sessions \ {p}
              /\ \A k \in DOMAIN after : after[k] = sessions[k]
              /\ p \notin DOMAIN sessions => unregister_session(sessions, p) = sessions)
  /\ [][ \A p \in CallerIds :
           Unregister(p) =>
             /\ DOMAIN sessions' = DOMAIN sessions \ {p}
             /\ \A k \in DOMAIN sessions' : sessions'[k] = sessions[k] ]_vars

C13_Witness ==
  \E s, t \in SessIds :
    /\ s # t
    /\ sess[s].via = "handoff" /\ sess[s].loop = "reading"
    /\ sess[t].via = "handoff" /\ sess[t].loop = "reading"
    /\ ~hist.teardown
    /\ sess[s].peer_id \notin DOMAIN sessions
    /\ sess[t].peer_id \in DOMAIN sessions
    /\ sessions[sess[t].peer_id] = t

\* send_to_peer is about to return from its call of send
UnicastReturns == pcApi = "write" /\ api.op = "unicast"

\* C14: send_to_peer(p, m) with p registered calls send(m) once, on the session
\* registered under p, and on no other; with p absent it writes to no session; in
\* both cases the registry is left as it was.
C14_SendToPeer ==
  [][ /\ \A p \in CallerIds, m \in Msgs :
           /\ (pcApi = "idle" /\ p \in DOMAIN sessions /\ SendToPeer(p, m)) =>
                /\ api'.target = sessions[p]
                /\ api'.peer = p /\ api'.msg = m
                /\ sessions' = sessions
           /\ (pcApi = "idle" /\ p \notin DOMAIN sessions) =>
                /\ ~SendToPeer(p, m)
                /\ SendToPeerAbsent(p, m) =>
                     /\ writing' = writing
                     /\ sessions' = sessions
                     /\ pcApi' = "idle"
      /\ (api.op = "unicast" /\ pcApi # "idle") =>
           /\ sessions' = sessions
           /\ api.peer \in DOMAIN sessions /\ sessions[api.peer] = api.target
      /\ (UnicastReturns /\ pcApi' = "idle") =>
           hist.bcCount = [s \in SessIds |-> IF s = api.target THEN 1 ELSE 0]
    ]_vars

C14_Witness ==
  /\ UnicastReturns
  /\ api.peer = "a_host_0"
  /\ \E k \in DOMAIN sessions : sessions[k] # api.target
  /\ hist.bcCount = [s \in SessIds |-> IF s = api.target THEN 1 ELSE 0]
  /\ writing[api.target] = 1

\* C15: when add_peer returns the empty id while a JOIN is handled on an unjoined
\* session, the session stays unjoined (empty peer_id and room_id), the registry is
\* left as it was, and the reply to the client is not a join ack.
C15_FailedJoinLeavesNoState ==
  [][ \A s \in SessIds, f \in Frames :
        (sess[s].via = "native" /\ OnReadJoin(s, f) /\ io'.ret = "") =>
          /\ sess'[s].peer_id = ""
          /\ sess'[s].room_id = ""
          /\ sessions' = sessions
          /\ ParseType(io'.msg) # "JOIN" ]_vars

\* frames of type ANSWER and ICE_CANDIDATE, and a frame with no type
NoOpFrames == {FrAnswer, FrCandidate, FrJunk}

\* the handler of frame f on session s, whatever f decodes to
HandleFrame(s, f) ==
  OnReadJoin(s, f) \/ OnReadOffer(s, f) \/ OnReadOther(s, f) \/ OnReadLeave(s, f)

C17_FailedWriteIsDropped ==
  /\ [](\A s \in SessIds :
          send_mutex[s] = "io" => (pcIo = "write" /\ io.sess = s /\ writing[s] = 1))
  /\ [][ (pcIo = "write" /\ pcIo' = "idle") =>
           /\ Len(hist.ioSends) = 1
           /\ send_mutex'[io.sess] = "none"
           /\ writing'[io.sess] = 0
           /\ sess'[io.sess].loop = sess[io.sess].loop
           /\ sess'[io.sess].open = sess[io.sess].open
           /\ sess'[io.sess].st = sess[io.sess].st ]_vars

C17_Witness ==
  /\ pcIo = "write"
  /\ io.sess \in hist.writeFailed
  /\ sess[io.sess].open
  /\ sess[io.sess].loop = "reading"
  /\ send_mutex[io.sess] = "io"

\* C18: close() after close() leaves a session as one close() does, and ws_.close is
\* called at most once on a session's stream, whoever calls close().
C18_CloseIsIdempotent ==
  \A s \in SessIds :
    /\ close(close(sess[s])) = close(sess[s])
    /\ hist.wsCloses[s] <= 1

\* header sets with the answer is_websocket_upgrade is to give on them
UpgradeCases ==
  { [headers |-> HdrsFull, upgrade |-> TRUE],
    [headers |-> HdrsLower, upgrade |-> TRUE],
    [headers |-> HdrsNoKey, upgrade |-> FALSE],
    [headers |-> HdrsNoUpgrade, upgrade |-> FALSE],
    [headers |-> HdrsNoConnection, upgrade |-> FALSE],
    [headers |-> HdrsOther, upgrade |-> FALSE] }

\* C19: is_websocket_upgrade is true exactly on the requests that have the Upgrade,
\* Connection and Sec-WebSocket-Key headers with an Upgrade value containing
\* "websocket" in any case; a request it is false on is never handed to the upgrade
\* path: it is routed as an ordinary request.
C19_IsUpgrade ==
  [][ \A id \in PathIds, role \in PathRoles, c \in UpgradeCases :
        LET req == [path |-> RoomPath(id, role), headers |-> c.headers]
        IN  /\ IsUpgrade[req] = c.upgrade
            /\ (~c.upgrade /\ HandleUpgrade(req)) =>
                 /\ ~\E s \in SessIds : Created(s)
                 /\ fdState'[hist'.conns] = "routed"
            /\ (c.upgrade /\ HandleUpgrade(req)) => fdState'[hist'.conns] # "routed"
    ]_vars

C19_Witness ==
  \E n, k \in FdIds : fdState[n] = "routed" /\ fdState[k] = "session"


\* keys with the accept value the handshake is to answer: base64(sha1(key + magic))
AcceptCases ==
  { [key |-> SampleKey, accept |-> "s3pPLMBiTxaQ9kYGzzhZRbK+xOo="],
    [key |-> OtherKey, accept |-> "HSmrc0sMlYUkAGmm5OPpG2HaGWk="],
    [key |-> "", accept |-> "Kfh9QIsMVZcl6xEPYxPHzW8SZ8w="],
    [key |-> "AQIDBAUGBwgJCgsMDQ4PEC==", accept |-> "OfS0wDaT5NoxF2gqm7Zj2YtetzM="] }

\* C20: for every client nonce compute_websocket_accept(nonce) is
\* base64(sha1(nonce + "258EAFA5-E914-47DA-95CA-C5AB0DC85B11")), "s3pPLMBiTxaQ9kYGzzhZRbK+xOo="
\* for the key "dGhlIHNhbXBsZSBub25jZQ=="; it is the value the 101 response of a
\* handoff carries for the request's Sec-WebSocket-Key.
C20_AcceptValue ==
  [][ /\ \A c \in AcceptCases : AcceptOf[c.key] = c.accept
      /\ \A req \in Requests :
           HttpHandoff(req) =>
             \E c \in AcceptCases :
               /\ c.key = req.headers["Sec-WebSocket-Key"]
               /\ http'.accept = c.accept
    ]_vars

C20_Witness ==
  /\ pcHttp = "register"
  /\ http.accept = "s3pPLMBiTxaQ9kYGzzhZRbK+xOo="


\* C21: when broadcast_to_room(R, m), called with the default (empty)
\* exclude_peer_id, returns, send(m) was called on every registered session whose
\* room_id is R, a session registered under the empty peer id included.
C21_EmptyExcludeDelivers ==
  (ScanComplete /\ api.excl = "") =>
    \A s \in Registered : sess[s].room_id = api.room => hist.bcCount[s] >= 1


\* C22: while a scan of broadcast_to_room is under way no step changes the room_id or
\* the peer_id of a registered session, and none destroys one.
C22_NoRebindDuringScan ==
  [][ (Scanning /\ Scanning') =>
        \A s \in Registered :
          /\ sess'[s].room_id = sess[s].room_id
          /\ sess'[s].peer_id = sess[s].peer_id
          /\ sess'[s].st = sess[s].st ]_vars


\* C23: every registry entry maps its key to a session whose own peer_id is the key.
C23_KeyIsPeerId ==
  \A k \in DOMAIN sessions : sess[sessions[k]].peer_id = k


\* the reply a client expects for the OFFER frame FrOffer
ExpectedAnswer == "{\"type\":\"answer\",\"data\":{\"type\":\"offer\",\"sdp\":\"v0\"}}"

\* C24: handling an OFFER changes no session (peer_id, room_id and role stay), and
\* when the handler returns exactly one send was made, on the session the frame came
\* from: an answer-typed frame whose data is the received payload, unmodified.
C24_OfferIsEchoed ==
  [][ /\ \A s \in SessIds :
           OnReadOffer(s, FrOffer) =>
             /\ sess' = sess
             /\ sessions' = sessions
             /\ peers' = peers
             /\ io'.sess = s /\ io'.msg = ExpectedAnswer
             /\ hist'.ioSends = <<>>
      /\ (pcIo = "write" /\ io.kind = "OFFER" /\ pcIo' = "idle") =>
           /\ hist.ioSends = << <<io.sess, ExpectedAnswer>> >>
           /\ \A t \in SessIds \ {io.sess} : writing[t] = 0
    ]_vars

C24_Witness ==
  /\ pcIo = "write"
  /\ io.kind = "OFFER"
  /\ hist.ioSends = << <<io.sess, ExpectedAnswer>> >>
  /\ \E t \in Live \ {io.sess} : sess[t].open /\ sess[t].loop = "reading"


\* C25: a LEAVE handled on a session whose peer_id is empty calls remove_peer for no
\* peer and calls close(): the session's stream is closed when close() has returned.
C25_UnjoinedLeave ==
  [][ /\ \A s \in SessIds :
           (sess[s].peer_id = "" /\ OnReadLeave(s, FrLeave)) =>
             /\ hist'.removeCalls = hist.removeCalls
             /\ peers' = peers
             /\ pcIo' = "closing" /\ io'.sess = s
             /\ sessions' = sessions
      /\ (pcIo = "closing" /\ pcIo' = "idle") => ~sess'[io.sess].open
    ]_vars

C25_Witness ==
  /\ pcIo = "closing"
  /\ sess[io.sess].via = "native"
  /\ sess[io.sess].peer_id = ""
  /\ hist.removeCalls[io.sess] = 0
  /\ peers # {}


\* C26: an upgrade attempt with a role segment other than host or viewer, an empty or
\* missing room id, no Sec-WebSocket-Key, or made while no WebSocket server is
\* attached, is rejected at a return that precedes the write of the 101 response
\* (whether that write would succeed plays no part); no session is created or
\* registered, and handle_client closes the socket, once.
C26_RejectedUpgrade ==
  [][ /\ ~ParseUpgradePath("/live/a/host").ok
      /\ ~ParseUpgradePath("/room/a").ok
      /\ \A id \in PathIds, role \in PathRoles, h \in {HdrsFull, HdrsLower, HdrsNoKey} :
           LET req == [path |-> RoomPath(id, role), headers |-> h]
           IN  (\/ role \notin {"host", "viewer"}
                \/ id = ""
                \/ "Sec-WebSocket-Key" \notin DOMAIN h
                \/ ~wsAttached)
               => /\ ~HttpHandoff(req)
                  /\ ~HttpHandoffFails(req)
                  /\ \A writeOk \in BOOLEAN :
                       /\ Decision[req][wsAttached][writeOk]
                            \in {"no_server", "bad_path", "no_key"}
                       /\ HttpReject(req, writeOk) =>
                            /\ fdState[hist'.conns] = "unused"
                            /\ fdState'[hist'.conns] \in {"closed", "routed"}
                            /\ \A n \in FdIds \ {hist'.conns} : fdState'[n] = fdState[n]
                            /\ sess' = sess
                            /\ sessions' = sessions
                            /\ pcHttp' = "idle"
    ]_vars

C26_Witness ==
  /\ ~wsAttached
  /\ fdState[1] = "closed"
  /\ fdState[2] = "routed"
  /\ \A s \in SessIds : sess[s].st = "unused"
  /\ sessions = EmptyMap


\* C27: while running_ is set an accept is pending: every accept completion, with or
\* without an error, issues a new accept while running_ is set, and an accept stops
\* being pending only when running_ was cleared.
C27_AcceptContinues ==
  /\ [](running => acceptPending)
  /\ [][ /\ (OnAccept \/ OnAcceptError) => acceptPending' = running
         /\ (acceptPending /\ ~acceptPending') => (~running /\ ~running') ]_vars

C27_Witness ==
  /\ running
  /\ acceptPending
  /\ hist.natives = MaxNative
  /\ \E s \in Live : sess[s].via = "native" /\ sess[s].loop = "reading"


\* C28: a frame of a session is handled only when no handler is running and the
\* session's one read is outstanding, so the handling of a frame, its replies and its
\* add_peer / remove_peer calls included, is over before the next read is issued; and
\* once the read loop of a session has exited no frame of it is handled and the loop
\* stays exited.
C28_FramesOneAtATime ==
  /\ [](pcIo # "idle" => /\ io.sess \in SessIds
                         /\ sess[io.sess].loop = "reading")
  /\ [][ \A s \in SessIds :
           /\ (\E f \in Frames : HandleFrame(s, f)) =>
                /\ pcIo = "idle" /\ io = IoIdle
                /\ sess[s].loop = "reading" /\ sess[s].open
                /\ writing[s] = 0
                /\ hist'.frames = hist.frames + 1
           /\ sess[s].loop = "exited" =>
                /\ sess'[s].loop = "exited"
                /\ ~\E f \in Frames : HandleFrame(s, f) ]_vars

C28_Witness ==
  /\ pcIo = "write"
  /\ io.kind = "OFFER"
  /\ sess[io.sess].peer_id = "p1"
  /\ hist.frames = 2
  /\ \E t \in SessIds : sess[t].loop = "exited"


\* some thread that is inside an operation can take its next step: the lock it
\* requests is free, or it requests none
CanStep ==
  \/ pcHttp = "register" /\ RegisterLocks
  \/ pcStop = "lock" /\ StopLocks
  \/ pcStop = "join" /\ pcIo = "idle"
  \/ pcIo \in {"closing", "write"}
  \/ pcIo = "send" /\ SendLocks(io.sess)
  \/ pcApi = "visit" /\ (api.it.end \/ api.it.key \in DOMAIN sessions)
  \/ pcApi = "send" /\ SendLocks(api.target)
  \/ pcApi = "write"

\* C29: the threads never deadlock: while any thread is inside an operation some
\* thread inside one can step.  A send_mutex_ is taken by a thread that holds
\* sessions_mutex_ or no lock, a thread holding a send_mutex_ is inside ws_.write and
\* returns without requesting a lock, and sessions_mutex_ is never taken by a thread
\* that holds a send_mutex_.
C29_NoDeadlock ==
  /\ []((pcIo # "idle" \/ pcApi # "idle" \/ pcHttp # "idle" \/ pcStop # "idle")
          => CanStep)
  /\ [](\A s \in SessIds :
          /\ send_mutex[s] = "api" =>
               (sessions_mutex = "api" /\ pcApi = "write" /\ api.target = s)
          /\ send_mutex[s] = "io" => (pcIo = "write" /\ io.sess = s)
          /\ send_mutex[s] \in {"none", "api", "io"})
  /\ [](/\ sessions_mutex \in {"none", "api"}
        /\ sessions_mutex = "api" <=> pcApi \in {"visit", "send", "write"})
  /\ [][ /\ (sessions_mutex = "none" /\ sessions_mutex' # "none") =>
              \A s \in SessIds : send_mutex[s] # sessions_mutex'
         /\ \A s \in SessIds :
              (send_mutex[s] = "none" /\ send_mutex'[s] # "none") =>
                /\ send_mutex'[s] \in {"api", "io"}
                /\ send_mutex'[s] = "api" => sessions_mutex = "api"
                /\ \A t \in SessIds : send_mutex[t] # send_mutex'[s] ]_vars

C29_Witness ==
  /\ pcIo = "write"
  /\ pcApi = "send"
  /\ api.target = io.sess
  /\ sessions_mutex = "api"
  /\ pcStop = "lock"
  /\ pcHttp = "register"


\* C30: when the read loop of a session has exited, every peer id add_peer returned
\* to the session has been removed from the collaborator by remove_peer.
C30_NoPeerLeftBehind ==
  \A s \in SessIds :
    (sess[s].loop = "exited" /\ pcIo = "idle") => hist.given[s] \cap peers = {}

=============================================================================
